---- MODULE Spec2Model ----
(***************************************************************************)
(* A model of pyedf's EDF.py: the EDFWriter and EDFReader classes, the     *)
(* padtrim and writebyte helpers, and the file system they act on.         *)
(*                                                                         *)
(* Representation.                                                         *)
(*   - A text (Python str) is a sequence of code points; a file content    *)
(*     (Python bytes) is a sequence of byte values 0..255.  The two are    *)
(*     related by Utf8 (bytes(content, 'utf8')) and Decode (.decode()).    *)
(*   - A float is a record [k, n, d]: k = "fin" is the rational n/d in     *)
(*     lowest terms (d > 0); k = "inf" is +inf (n = 1) or -inf (n = -1);   *)
(*     k = "nan" is NaN.  Arithmetic follows numpy: x/0 is +-inf or nan,   *)
(*     never an exception.  The inputs of the model are chosen so that     *)
(*     the binary floating-point results are exact.                        *)
(*   - None is NoneText for a str attribute and NoneRec for a dict or an   *)
(*     array attribute.                                                    *)
(***************************************************************************)
EXTENDS Integers, Sequences, FiniteSets, TLC

(***************************************************************************)
(* Bounds of the model.                                                    *)
(***************************************************************************)
\* data records a file may hold before write_block is no longer explored
MaxBlocks == 2
\* largest block index a reader is asked for
MaxReadBlock == 2

(***************************************************************************)
(* Sequences.                                                              *)
(***************************************************************************)
Min(a, b) == IF a <= b THEN a ELSE b

Max(a, b) == IF a >= b THEN a ELSE b

Abs(a) == IF a >= 0 THEN a ELSE -a

\* s[0:n] for 0 <= n
Take(s, n) == SubSeq(s, 1, Min(n, Len(s)))

\* s[n:] for 0 <= n
Drop(s, n) == SubSeq(s, Min(n, Len(s)) + 1, Len(s))

\* ' ' * n
Spaces(n) == [i \in 1..n |-> 32]

RECURSIVE SumSeq(_)
SumSeq(s) == IF s = <<>> THEN 0 ELSE s[1] + SumSeq(Tail(s))

\* the concatenation of a sequence of sequences (by halves)
RECURSIVE Flatten(_)
Flatten(ss) ==
  IF Len(ss) = 0 THEN <<>>
  ELSE IF Len(ss) = 1 THEN ss[1]
  ELSE LET h == Len(ss) \div 2
       IN Flatten(SubSeq(ss, 1, h)) \o Flatten(SubSeq(ss, h + 1, Len(ss)))

SetMin(S) == CHOOSE x \in S : \A y \in S : x <= y

SetMax(S) == CHOOSE x \in S : \A y \in S : x >= y

(***************************************************************************)
(* None.                                                                   *)
(***************************************************************************)
NoneText == <<-1>>

NoneRec == [none |-> TRUE]

\* a path at which no file exists
Absent == <<-1>>

(***************************************************************************)
(* Floats (numpy float64 / float32, idealised as exact rationals with the  *)
(* IEEE special values).                                                   *)
(***************************************************************************)
RECURSIVE GCD(_, _)
GCD(a, b) == IF b = 0 THEN a ELSE GCD(b, a % b)

\* the float n/d, d # 0, in lowest terms
Fin(n, d) ==
  LET g == GCD(Abs(n), Abs(d))
      s == IF d < 0 THEN -1 ELSE 1
  IN [k |-> "fin", n |-> (s * n) \div g, d |-> (s * d) \div g]

FInt(n) == [k |-> "fin", n |-> n, d |-> 1]

PInf == [k |-> "inf", n |-> 1, d |-> 0]

NInf == [k |-> "inf", n |-> -1, d |-> 0]

NaN == [k |-> "nan", n |-> 0, d |-> 0]

\* Python None where a float is expected (meas_info['lowpass'])
NoneF == [k |-> "none", n |-> 0, d |-> 0]

Sign(n) == IF n > 0 THEN 1 ELSE IF n < 0 THEN -1 ELSE 0

Signed(s) == IF s > 0 THEN PInf ELSE IF s < 0 THEN NInf ELSE NaN

FNeg(a) == IF a.k = "nan" THEN NaN ELSE [a EXCEPT !.n = -a.n]

FAdd(a, b) ==
  IF a.k = "nan" \/ b.k = "nan" THEN NaN
  ELSE IF a.k = "inf" /\ b.k = "inf" THEN (IF a.n = b.n THEN a ELSE NaN)
  ELSE IF a.k = "inf" THEN a
  ELSE IF b.k = "inf" THEN b
  ELSE Fin(a.n * b.d + b.n * a.d, a.d * b.d)

FSub(a, b) == FAdd(a, FNeg(b))

FMul(a, b) ==
  IF a.k = "nan" \/ b.k = "nan" THEN NaN
  ELSE IF a.k = "inf" \/ b.k = "inf" THEN Signed(Sign(a.n) * Sign(b.n))
  ELSE Fin(a.n * b.n, a.d * b.d)

\* numpy true division: a zero divisor gives +-inf or nan (and a warning)
FDiv(a, b) ==
  IF a.k = "nan" \/ b.k = "nan" THEN NaN
  ELSE IF a.k = "inf" /\ b.k = "inf" THEN NaN
  ELSE IF a.k = "inf" THEN (IF b.n < 0 THEN FNeg(a) ELSE a)
  ELSE IF b.k = "inf" THEN FInt(0)
  ELSE IF b.n = 0 THEN Signed(Sign(a.n))
  ELSE Fin(a.n * b.d, a.d * b.n)

\* a < b; every comparison with nan is False
FLt(a, b) ==
  IF a.k = "nan" \/ b.k = "nan" THEN FALSE
  ELSE IF a.k = "inf" /\ b.k = "inf" THEN a.n < b.n
  ELSE IF a.k = "inf" THEN a.n < 0
  ELSE IF b.k = "inf" THEN b.n > 0
  ELSE a.n * b.d < b.n * a.d

\* a <= b
FLe(a, b) == a.k # "nan" /\ b.k # "nan" /\ (a = b \/ FLt(a, b))

FAbs(a) == IF a.k = "nan" THEN NaN ELSE [a EXCEPT !.n = Abs(a.n)]

\* int(x) of a finite float: truncation toward zero
Trunc(a) == IF a.n >= 0 THEN a.n \div a.d ELSE -((-a.n) \div a.d)

(***************************************************************************)
(* Text and bytes.                                                         *)
(***************************************************************************)
\* the decimal digits of n >= 0
RECURSIVE Digits(_)
Digits(n) == IF n < 10 THEN <<48 + n>> ELSE Digits(n \div 10) \o <<48 + (n % 10)>>

\* str(n) of an int
IntStr(n) == IF n < 0 THEN <<45>> \o Digits(-n) ELSE Digits(n)

\* str(x) of a finite float with at most one decimal digit ("-8.0", "0.5")
FloatStr(a) ==
  LET t == Abs(a.n) * (10 \div a.d)
  IN (IF a.n < 0 THEN <<45>> ELSE <<>>)
       \o Digits(t \div 10) \o <<46, 48 + (t % 10)>>

\* '{:0>2d}'.format(n)
Pad2(n) == LET s == IntStr(n) IN IF Len(s) < 2 THEN <<48>> \o s ELSE s

\* bytes(content, 'utf8'): one byte below U+0080, two below U+0800
Utf8(text) ==
  Flatten([i \in 1..Len(text) |->
             IF text[i] < 128 THEN <<text[i]>>
             ELSE <<192 + (text[i] \div 64), 128 + (text[i] % 64)>>])

\* a failed conversion (an exception of decode, int or float)
Bad == [ok |-> FALSE, v |-> 0]

Good(v) == [ok |-> TRUE, v |-> v]

\* bytes.decode(): UTF-8 to text; a malformed sequence raises
RECURSIVE DecodeFrom(_, _)
DecodeFrom(b, i) ==
  IF i > Len(b) THEN Good(<<>>)
  ELSE IF b[i] < 128
    THEN LET r == DecodeFrom(b, i + 1)
         IN IF r.ok THEN Good(<<b[i]>> \o r.v) ELSE Bad
  ELSE IF b[i] >= 194 /\ b[i] < 224 /\ Len(b) >= i + 1 /\ b[i + 1] >= 128 /\ b[i + 1] < 192
    THEN LET r == DecodeFrom(b, i + 2)
         IN IF r.ok THEN Good(<<(b[i] - 192) * 64 + (b[i + 1] - 128)>> \o r.v) ELSE Bad
  ELSE Bad

Decode(b) == IF \A i \in 1..Len(b) : b[i] < 128 THEN Good(b) ELSE DecodeFrom(b, 1)

IsSpace(c) == c \in {9, 10, 11, 12, 13, 32}

IsDigit(c) == c >= 48 /\ c <= 57

\* bytes.strip() / str.strip(): without the whitespace at both ends
Strip(s) ==
  LET keep == {i \in 1..Len(s) : ~IsSpace(s[i])}
  IN IF keep = {} THEN <<>> ELSE SubSeq(s, SetMin(keep), SetMax(keep))

\* the value of a sequence of decimal digits
RECURSIVE DigitsVal(_)
DigitsVal(s) ==
  IF s = <<>> THEN 0 ELSE 10 * DigitsVal(SubSeq(s, 1, Len(s) - 1)) + (s[Len(s)] - 48)

AllDigits(s) == \A i \in 1..Len(s) : IsDigit(s[i])

\* int(text): surrounding whitespace, an optional sign, at least one digit
ParseInt(text) ==
  LET t == Strip(text)
      neg == t # <<>> /\ t[1] = 45
      u == IF t # <<>> /\ t[1] \in {43, 45} THEN Tail(t) ELSE t
  IN IF u = <<>> \/ ~AllDigits(u) THEN Bad
     ELSE Good(IF neg THEN -DigitsVal(u) ELSE DigitsVal(u))

RECURSIVE Pow10(_)
Pow10(n) == IF n = 0 THEN 1 ELSE 10 * Pow10(n - 1)

\* the index of the first '.' of s, or 0
RECURSIVE DotAt(_, _)
DotAt(s, i) == IF i > Len(s) THEN 0 ELSE IF s[i] = 46 THEN i ELSE DotAt(s, i + 1)

\* float(text) for decimal notation: [sign] digits [. digits], one side of
\* the point may be empty
ParseFloat(text) ==
  LET t == Strip(text)
      neg == t # <<>> /\ t[1] = 45
      u == IF t # <<>> /\ t[1] \in {43, 45} THEN Tail(t) ELSE t
      p == DotAt(u, 1)
      ip == IF p = 0 THEN u ELSE SubSeq(u, 1, p - 1)
      fp == IF p = 0 THEN <<>> ELSE SubSeq(u, p + 1, Len(u))
      m == DigitsVal(ip) * Pow10(Len(fp)) + DigitsVal(fp)
  IN IF (ip = <<>> /\ fp = <<>>) \/ ~AllDigits(ip) \/ ~AllDigits(fp) THEN Bad
     ELSE Good(Fin(IF neg THEN -m ELSE m, Pow10(Len(fp))))

\* re.findall('(\d+)', text): the maximal runs of digits, as ints
RECURSIVE DigitRuns(_, _, _)
DigitRuns(s, i, cur) ==
  IF i > Len(s) THEN (IF cur = <<>> THEN <<>> ELSE <<DigitsVal(cur)>>)
  ELSE IF IsDigit(s[i]) THEN DigitRuns(s, i + 1, Append(cur, s[i]))
  ELSE (IF cur = <<>> THEN <<>> ELSE <<DigitsVal(cur)>>) \o DigitRuns(s, i + 1, <<>>)

\* str.lower() on ASCII letters
Lower(s) == [i \in 1..Len(s) |-> IF s[i] >= 65 /\ s[i] <= 90 THEN s[i] + 32 ELSE s[i]]

\* the index of the last '.' of s, or 0
RECURSIVE LastDot(_, _)
LastDot(s, i) == IF i = 0 THEN 0 ELSE IF s[i] = 46 THEN i ELSE LastDot(s, i - 1)

\* os.path.splitext(fname)[1][1:]: the extension without its dot ('' when the
\* name has no dot or only a leading one)
SplitExt(fname) ==
  LET p == LastDot(fname, Len(fname))
  IN IF p <= 1 THEN <<>> ELSE SubSeq(fname, p + 1, Len(fname))

(***************************************************************************)
(* padtrim and writebyte.                                                  *)
(***************************************************************************)
\* padtrim(buf, num): pad with spaces to num characters, or slice buf[0:num-len]
padtrim(buf, num) ==
  LET n == num - Len(buf)
  IN IF n >= 0 THEN buf \o Spaces(n) ELSE SubSeq(buf, 1, Len(buf) + n)

\* writebyte(file, content) with a str: its UTF-8 bytes are appended
writebyte(file, content) == file \o Utf8(content)

\* writebyte(file, content) with bytes: bytes(content, 'utf8') raises TypeError,
\* which is passed over, and content is appended as it is
writebytes(file, content) == file \o content

(***************************************************************************)
(* The header: meas_info and chan_info.                                    *)
(*   meas_info: file_ver, subject_id, recording_id, subtype (texts), day,  *)
(*     month, year, hour, minute, second, nchan, data_size, data_offset    *)
(*     (ints), record_length, highpass, lowpass (floats; lowpass may be    *)
(*     None), n_records (a number, see Num) and absent, the set of keys    *)
(*     the dict does not have.                                             *)
(*   chan_info: ch_names, transducers, units (sequences of texts),         *)
(*     physical_min, physical_max, digital_min, digital_max (sequences of  *)
(*     floats), n_samps (sequence of ints) and absent.                     *)
(***************************************************************************)
\* a Python number that is an int (isint) or a float
Num(isint, val) == [isint |-> isint, val |-> val]

\* subtypes stored with 3-byte samples: '24BIT' and 'bdf'
Subtypes24 == {<<50, 52, 66, 73, 84>>, <<98, 100, 102>>}

\* data_size of a subtype (write_header and read_header hold the same lines)
DataSize(subtype) == IF subtype \in Subtypes24 THEN 3 ELSE 2

\* writebyte of each text of a list, in order
RECURSIVE WriteAll(_, _)
WriteAll(file, texts) ==
  IF Len(texts) = 0 THEN file
  ELSE IF Len(texts) = 1 THEN writebyte(file, texts[1])
  ELSE LET h == Len(texts) \div 2
       IN WriteAll(WriteAll(file, SubSeq(texts, 1, h)), SubSeq(texts, h + 1, Len(texts)))

\* write_header, "fill in the missing or incomplete information"
FillMeas(meas_info) ==
  LET st == IF "subtype" \in meas_info.absent THEN <<101, 100, 102>> ELSE meas_info.subtype
  IN [meas_info EXCEPT
        !.subject_id = IF "subject_id" \in meas_info.absent THEN <<>> ELSE @,
        !.recording_id = IF "recording_id" \in meas_info.absent THEN <<>> ELSE @,
        !.subtype = st,
        !.data_size = DataSize(st),
        !.absent = {}]

FillChan(chan_info, nchan) ==
  [chan_info EXCEPT
     !.ch_names = IF "ch_names" \in chan_info.absent \/ Len(@) < nchan
                  THEN [i \in 1..nchan |-> IntStr(i - 1)] ELSE @,
     !.transducers = IF "transducers" \in chan_info.absent \/ Len(@) < nchan
                     THEN [i \in 1..nchan |-> <<>>] ELSE @,
     !.units = IF "units" \in chan_info.absent \/ Len(@) < nchan
               THEN [i \in 1..nchan |-> <<>>] ELSE @,
     !.absent = {}]

\* a header field: the text write_header makes for it and its width
Field(text, width) == [text |-> text, width |-> width]

\* the fields of the header in file order (m, c already filled in); the
\* subtype area, the prefiltering and the reserved fields are written as blanks
HeaderFields(m, c) ==
  LET n == m.nchan
      col(f(_)) == [i \in 1..n |-> f(i)]
      name(i) == Field(c.ch_names[i], 16)
      trans(i) == Field(c.transducers[i], 80)
      unit(i) == Field(c.units[i], 8)
      pmin(i) == Field(FloatStr(c.physical_min[i]), 8)
      pmax(i) == Field(FloatStr(c.physical_max[i]), 8)
      dmin(i) == Field(IntStr(Trunc(c.digital_min[i])), 8)
      dmax(i) == Field(IntStr(Trunc(c.digital_max[i])), 8)
      pref(i) == Field(Spaces(80), 80)
      nsamp(i) == Field(IntStr(c.n_samps[i]), 8)
      resv(i) == Field(Spaces(32), 32)
  IN << Field(<<48>>, 8),
        Field(m.subject_id, 80),
        Field(m.recording_id, 80),
        Field(Pad2(m.day) \o <<46>> \o Pad2(m.month) \o <<46>> \o Pad2(m.year), 8),
        Field(Pad2(m.hour) \o <<46>> \o Pad2(m.minute) \o <<46>> \o Pad2(m.second), 8),
        Field(IntStr(256 + 256 * n), 8),
        Field(Spaces(44), 44),
        Field(IntStr(-1), 8),
        Field(FloatStr(m.record_length), 8),
        Field(IntStr(n), 4) >>
     \o col(name) \o col(trans) \o col(unit) \o col(pmin) \o col(pmax)
     \o col(dmin) \o col(dmax) \o col(pref) \o col(nsamp) \o col(resv)

\* the texts write_header hands to writebyte, in order
HeaderTexts(m, c) ==
  LET f == HeaderFields(m, c) IN [k \in 1..Len(f) |-> padtrim(f[k].text, f[k].width)]

\* the calibration of one channel
CalScale(c, i) ==
  FDiv(FSub(c.physical_max[i], c.physical_min[i]),
       FSub(c.digital_max[i], c.digital_min[i]))

CalOffset(c, i) == FSub(c.physical_min[i], FMul(CalScale(c, i), c.digital_min[i]))

\* write_header: self.calibrate and self.offset, with the loop that resets a
\* channel whose calibrate is negative
writer_calibration(c, nchan) ==
  [calibrate |-> [i \in 1..nchan |->
                    IF FLt(CalScale(c, i), FInt(0)) THEN FInt(1) ELSE CalScale(c, i)],
   offset |-> [i \in 1..nchan |->
                    IF FLt(CalScale(c, i), FInt(0)) THEN FInt(0) ELSE CalOffset(c, i)]]

\* write_header(header): the bytes of the (truncated and rewritten) file and
\* the attributes of the writer
write_header(meas_info, chan_info) ==
  LET m == FillMeas(meas_info)
      c == FillChan(chan_info, m.nchan)
      bytes == WriteAll(<<>>, HeaderTexts(m, c))
      cal == writer_calibration(c, m.nchan)
  IN [file |-> bytes,
      meas_info |-> [m EXCEPT !.data_offset = Len(bytes)],
      chan_info |-> c,
      calibrate |-> cal.calibrate,
      offset |-> cal.offset]

(***************************************************************************)
(* read_header.                                                            *)
(***************************************************************************)
\* fid.read(n) at position pos: at most n bytes, fewer at the end of the file
Read(file, pos, n) == SubSeq(file, Min(pos, Len(file)) + 1, Min(pos + n, Len(file)))

\* fid.read(n).strip().decode()
ReadText(file, pos, n) == Decode(Strip(Read(file, pos, n)))

\* int(fid.read(n).decode())
ReadInt(file, pos, n) ==
  LET t == Decode(Read(file, pos, n)) IN IF t.ok THEN ParseInt(t.v) ELSE Bad

\* float(fid.read(n).decode())
ReadFloat(file, pos, n) ==
  LET t == Decode(Read(file, pos, n)) IN IF t.ok THEN ParseFloat(t.v) ELSE Bad

\* [int(x) for x in re.findall('(\d+)', fid.read(8).decode())]
ReadRuns(file, pos) ==
  LET t == Decode(Read(file, pos, 8)) IN IF t.ok THEN Good(DigitRuns(t.v, 1, <<>>)) ELSE Bad

IsWord(c) == (c >= 48 /\ c <= 57) \/ (c >= 65 /\ c <= 90) \/ (c >= 97 /\ c <= 122) \/ c = 95

\* the end of the run of whitespace that starts at i (i - 1 when it is empty)
RECURSIVE SpaceRunEnd(_, _)
SpaceRunEnd(s, i) == IF i <= Len(s) /\ IsSpace(s[i]) THEN SpaceRunEnd(s, i + 1) ELSE i - 1

\* the end of the run of word characters that starts at i (i - 1 when it is empty)
RECURSIVE WordRunEnd(_, _)
WordRunEnd(s, i) == IF i <= Len(s) /\ IsWord(s[i]) THEN WordRunEnd(s, i + 1) ELSE i - 1

\* re.findall(tag + ':\s+(\w+)', s) for a two-letter tag ("HP", "LP")
RECURSIVE FindTokens(_, _, _)
FindTokens(s, tag, i) ==
  IF i + 4 > Len(s) THEN <<>>
  ELSE LET ws == SpaceRunEnd(s, i + 3)
           we == WordRunEnd(s, ws + 1)
       IN IF s[i] = tag[1] /\ s[i + 1] = tag[2] /\ s[i + 2] = 58
             /\ ws >= i + 3 /\ we >= ws + 1
          THEN <<SubSeq(s, ws + 1, we)>> \o FindTokens(s, tag, we + 1)
          ELSE FindTokens(s, tag, i + 1)

\* np.ravel of the per-channel token lists: a ragged list makes no array of
\* strings (numpy raises, or float() of its first element does)
Ravel(lists) ==
  IF \E i, j \in 1..Len(lists) : Len(lists[i]) # Len(lists[j]) THEN Bad
  ELSE Good(Flatten(lists))

\* meas_info['highpass'] from the HP tokens.  all(highpass) is True for every
\* array of tokens (a token is never empty), so the branch that takes
\* np.max and warns is never entered.
Highpass(tokens) ==
  IF tokens = <<>> THEN Good(FInt(0))
  ELSE IF tokens[1] = <<78, 97, 78>> THEN Good(FInt(0))
  ELSE IF tokens[1] = <<68, 67>> THEN Good(FInt(0))
  ELSE ParseFloat(tokens[1])

\* meas_info['lowpass'] from the LP tokens
Lowpass(tokens) ==
  IF tokens = <<>> THEN Good(NoneF)
  ELSE IF tokens[1] = <<78, 97, 78>> THEN Good(NoneF)
  ELSE ParseFloat(tokens[1])

IsLeap(y) == (y % 4 = 0 /\ y % 100 # 0) \/ y % 400 = 0

DaysIn(y, m) ==
  IF m = 2 THEN (IF IsLeap(y) THEN 29 ELSE 28)
  ELSE IF m \in {4, 6, 9, 11} THEN 30 ELSE 31

\* datetime.datetime(year, month, day, hour, minute, second) does not raise
ValidDate(y, mo, d, h, mi, s) ==
  /\ y >= 1 /\ y <= 9999 /\ mo >= 1 /\ mo <= 12
  /\ d >= 1 /\ d <= DaysIn(y, mo)
  /\ h >= 0 /\ h <= 23 /\ mi >= 0 /\ mi <= 59 /\ s >= 0 /\ s <= 59

AllOk(rs) == \A i \in 1..Len(rs) : rs[i].ok

Vals(rs) == [i \in 1..Len(rs) |-> rs[i].v]

\* read_header: self.calibrate and self.offset, with the loop that resets a
\* channel whose calibrate is negative
reader_calibration(c, nchan) ==
  [calibrate |-> [i \in 1..nchan |->
                    IF FLt(CalScale(c, i), FInt(0)) THEN FInt(1) ELSE CalScale(c, i)],
   offset |-> [i \in 1..nchan |->
                    IF FLt(CalScale(c, i), FInt(0)) THEN FInt(0) ELSE CalOffset(c, i)]]

\* meas_info['n_records'] when the field reads -1: os.path.getsize minus
\* data_offset, divided by data_size, divided by sum(n_samps): true divisions,
\* so the result is a float
derived_n_records(size, data_offset, data_size, n_samps) ==
  Num(FALSE, FDiv(FDiv(FInt(size - data_offset), FInt(data_size)), FInt(SumSeq(n_samps))))

\* read_header() on the file `file` named fname: ok = FALSE when it raises
\* (as open() does when there is no file)
\* (meas_date, a value derived from the date fields, is left out)
read_header(fname, file) ==
  LET file_ver == ReadText(file, 0, 8)
      subject_id == ReadText(file, 8, 80)
      recording_id == ReadText(file, 88, 80)
      date == ReadRuns(file, 168)
      time == ReadRuns(file, 176)
      data_offset == ReadInt(file, 184, 8)
      sub == ReadText(file, 192, 44)
      subtype == IF Take(sub.v, 5) # <<>> THEN Take(sub.v, 5) ELSE Lower(SplitExt(fname))
      n_records == ReadInt(file, 236, 8)
      reclen == ReadFloat(file, 244, 8)
      nchanR == ReadInt(file, 252, 4)
      nchan == Max(nchanR.v, 0)
      col(start, width, rd(_, _, _)) ==
        [i \in 1..nchan |-> rd(file, 256 + start * nchan + (i - 1) * width, width)]
      ch_names == col(0, 16, ReadText)
      transducers == col(16, 80, ReadText)
      units == col(96, 8, ReadText)
      physical_min == col(104, 8, ReadFloat)
      physical_max == col(112, 8, ReadFloat)
      digital_min == col(120, 8, ReadFloat)
      digital_max == col(128, 8, ReadFloat)
      prefAll == col(136, 80, ReadText)
      prefiltering == SubSeq(Vals(prefAll), 1, nchan - 1)
      hp == Ravel([i \in 1..Len(prefiltering) |-> FindTokens(prefiltering[i], <<72, 80>>, 1)])
      lp == Ravel([i \in 1..Len(prefiltering) |-> FindTokens(prefiltering[i], <<76, 80>>, 1)])
      highpass == Highpass(hp.v)
      lowpass == Lowpass(lp.v)
      n_samps == col(216, 8, ReadInt)
      reserved == Decode(Read(file, 256 + 224 * nchan, 32 * nchan))
      tell == Min(256 + 256 * nchan, Len(file))
      ok == /\ file_ver.ok /\ subject_id.ok /\ recording_id.ok
            /\ date.ok /\ Len(date.v) = 3 /\ time.ok /\ Len(time.v) = 3
            /\ ValidDate(date.v[3] + 2000, date.v[2], date.v[1],
                         time.v[1], time.v[2], time.v[3])
            /\ data_offset.ok /\ sub.ok /\ n_records.ok /\ reclen.ok /\ nchanR.ok
            /\ AllOk(ch_names) /\ AllOk(transducers) /\ AllOk(units)
            /\ AllOk(physical_min) /\ AllOk(physical_max)
            /\ AllOk(digital_min) /\ AllOk(digital_max)
            /\ AllOk(prefAll) /\ hp.ok /\ highpass.ok /\ lp.ok /\ lowpass.ok
            /\ AllOk(n_samps) /\ reserved.ok
            /\ tell = data_offset.v
            /\ (n_records.v = -1 => nchan > 0)
      chan_info == [ch_names |-> Vals(ch_names), transducers |-> Vals(transducers),
                    units |-> Vals(units),
                    physical_min |-> Vals(physical_min), physical_max |-> Vals(physical_max),
                    digital_min |-> Vals(digital_min), digital_max |-> Vals(digital_max),
                    n_samps |-> Vals(n_samps), absent |-> {}]
      meas_info == [file_ver |-> file_ver.v, subject_id |-> subject_id.v,
                    recording_id |-> recording_id.v,
                    day |-> date.v[1], month |-> date.v[2], year |-> date.v[3],
                    hour |-> time.v[1], minute |-> time.v[2], second |-> time.v[3],
                    data_offset |-> data_offset.v, subtype |-> subtype,
                    data_size |-> DataSize(subtype),
                    n_records |-> IF n_records.v = -1
                                  THEN derived_n_records(Len(file), data_offset.v,
                                                         DataSize(subtype), Vals(n_samps))
                                  ELSE Num(TRUE, FInt(n_records.v)),
                    record_length |-> IF reclen.v = FInt(0) THEN FInt(1) ELSE reclen.v,
                    nchan |-> nchanR.v,
                    highpass |-> highpass.v, lowpass |-> lowpass.v, absent |-> {}]
      cal == reader_calibration(chan_info, nchan)
  IN IF file # Absent /\ ok
     THEN [ok |-> TRUE, meas_info |-> meas_info, chan_info |-> chan_info,
                 calibrate |-> cal.calibrate, offset |-> cal.offset]
     ELSE [ok |-> FALSE, meas_info |-> NoneRec, chan_info |-> NoneRec,
           calibrate |-> NoneRec, offset |-> NoneRec]

(***************************************************************************)
(* Block I/O.                                                              *)
(***************************************************************************)
\* what np.asarray(raw, dtype=np.int16) may give for a value that is not a
\* number or does not fit 32 bits (the C cast is undefined there): the low
\* 16 bits of the "integer indefinite" value 0x80000000 of the conversion
\* instruction, or the int16 minimum of a saturating conversion
CastUndefined == {-32768, 0}

\* the low 16 bits of an integer, as an int16
Wrap16(t) == LET m == t % 65536 IN IF m >= 32768 THEN m - 65536 ELSE m

\* whether a float has an int16 cast that is defined by its low 16 bits: it
\* is a number whose integer part fits 32 bits
Fits32(x) == x.k = "fin" /\ Trunc(x) >= -2147483647 - 1 /\ Trunc(x) <= 2147483647

\* np.asarray(x, dtype=np.int16) of one float: the fraction is cut off
\* (truncation toward zero); a value that fits 32 bits but not 16 keeps its
\* low 16 bits (40000 gives -25536); u is the build's outcome for the other
\* values
Cast16(x, u) == IF Fits32(x) THEN Wrap16(Trunc(x)) ELSE u

\* raw -= offset; raw /= calibrate, for one value
Calibrated(x, offset, calibrate) == FDiv(FSub(x, offset), calibrate)

\* the samples <<channel, position>> of the data of one write_block call whose
\* cast is undefined
UndefinedAt(wr, data) ==
  IF wr.meas_info = NoneRec THEN {}
  ELSE {p \in UNION {{<<i, j>> : j \in 1..Len(data[i])} :
                       i \in 1..Min(wr.meas_info.nchan, Len(data))} :
          ~Fits32(Calibrated(data[p[1]][p[2]], wr.offset[p[1]], wr.calibrate[p[1]]))}

\* the outcomes of the undefined casts of one write_block call: one for each
\* sample whose cast is undefined
CastChoices(wr, data) == [UndefinedAt(wr, data) -> CastUndefined]

\* pack('h', v): two bytes, two's complement, low byte first
Pack16(v) == LET m == v % 65536 IN <<m % 256, m \div 256>>

\* unpack('<h', b) of two bytes
Unpack16(lo, hi) == LET m == lo + 256 * hi IN IF m >= 32768 THEN m - 65536 ELSE m

\* write_block: one channel's values, calibrated, cast and packed
EncodeChannel(raw, offset, calibrate, u, i) ==
  Flatten([j \in 1..Len(raw) |->
             Pack16(Cast16(Calibrated(raw[j], offset, calibrate),
                           IF <<i, j>> \in DOMAIN u THEN u[<<i, j>>] ELSE 0))])

\* the loop of write_block over the channels from i on: the bytes appended and
\* whether every channel was accepted.  A channel whose array is missing or
\* has not n_samps[i] values raises, after the channels before it were written.
RECURSIVE WriteChannels(_, _, _, _)
WriteChannels(wr, data, i, u) ==
  IF i > wr.meas_info.nchan THEN [ok |-> TRUE, bytes |-> <<>>]
  ELSE IF i > Len(data) \/ Len(data[i]) # wr.chan_info.n_samps[i] \/ Len(data[i]) = 0
    THEN [ok |-> FALSE, bytes |-> <<>>]
  ELSE LET rest == WriteChannels(wr, data, i + 1, u)
       IN [ok |-> rest.ok,
           bytes |-> EncodeChannel(data[i], wr.offset[i], wr.calibrate[i], u, i) \o rest.bytes]

\* write_block(data) by the writer wr on a file with content `file`: open()
\* raises for a writer without a file name, and makes an empty file where
\* there is none; the file opened 'ab' must not be empty, and a header must
\* have been written
write_block(wr, file, data, u) ==
  IF wr.fname = NoneText
  THEN [ok |-> FALSE, file |-> file, n_records |-> wr.n_records]
  ELSE IF file = Absent
  THEN [ok |-> FALSE, file |-> <<>>, n_records |-> wr.n_records]
  ELSE IF Len(file) = 0 \/ wr.meas_info = NoneRec
  THEN [ok |-> FALSE, file |-> file, n_records |-> wr.n_records]
  ELSE LET res == WriteChannels(wr, data, 1, u)
       IN [ok |-> res.ok, file |-> file \o res.bytes,
           n_records |-> IF res.ok THEN wr.n_records + 1 ELSE wr.n_records]

\* read_block: the channels from i on, read at position pos
RECURSIVE ReadChannels(_, _, _, _)
ReadChannels(rd, file, i, pos) ==
  IF i > rd.meas_info.nchan THEN Good(<<>>)
  ELSE LET n == rd.chan_info.n_samps[i]
           buf == Read(file, pos, n * rd.meas_info.data_size)
           rest == ReadChannels(rd, file, i + 1, pos + Len(buf))
           raw == [j \in 1..n |->
                     FAdd(FMul(FInt(Unpack16(buf[2 * j - 1], buf[2 * j])), rd.calibrate[i]),
                          rd.offset[i])]
       IN IF Len(buf) # 2 * n \/ ~rest.ok THEN Bad ELSE Good(<<raw>> \o rest.v)

\* read_block(block): one array of physical values per channel, or an error
\* (open() raises when there is no file at the path).  The n_samps that
\* read_header has made for a header without channels is np.array([]), an
\* array of floats: the block size is then a float, which seek() rejects.
read_block(rd, file, block) ==
  IF block < 0 \/ rd.meas_info = NoneRec \/ file = Absent THEN Bad
  ELSE IF rd.chan_info.n_samps = <<>> THEN Bad
  ELSE LET blocksize == SumSeq(rd.chan_info.n_samps) * rd.meas_info.data_size
       IN ReadChannels(rd, file, 1, rd.meas_info.data_offset + block * blocksize)

\* data of the blocks b..e of one channel, appended
RECURSIVE ReadSpan(_, _, _, _, _)
ReadSpan(rd, file, channel, b, e) ==
  IF b > e THEN Good(<<>>)
  ELSE LET blk == read_block(rd, file, b)
           rest == ReadSpan(rd, file, channel, b + 1, e)
       IN IF ~blk.ok \/ ~rest.ok THEN Bad ELSE Good(blk.v[channel] \o rest.v)

\* s[a:b] for 0 <= a and 0 <= b
PySlice(s, a, b) == SubSeq(s, a + 1, Min(b, Len(s)))

\* read_samples(channel, begsample, endsample), channel counted from 1 here;
\* isint: the sample numbers are ints (a float makes the final slice raise)
read_samples(rd, file, channel, begsample, endsample, isint) ==
  IF rd.meas_info = NoneRec \/ channel < 1 \/ channel > Len(rd.chan_info.n_samps) THEN Bad
  ELSE LET n_samps == rd.chan_info.n_samps[channel]
           begblock == begsample \div n_samps
           endblock == endsample \div n_samps
           first == read_block(rd, file, begblock)
           more == ReadSpan(rd, file, channel, begblock + 1, endblock)
       IN IF n_samps = 0 \/ ~first.ok \/ ~more.ok \/ ~isint THEN Bad
          ELSE Good(PySlice(first.v[channel] \o more.v,
                            begsample - begblock * n_samps,
                            endsample - begblock * n_samps + 1))

\* read_signal(chanindx): endsample is n_samps * n_records - 1, a float when
\* n_records is one
read_signal(rd, file, chanindx) ==
  IF rd.meas_info = NoneRec \/ chanindx < 1 \/ chanindx > Len(rd.chan_info.n_samps) THEN Bad
  ELSE LET nr == rd.meas_info.n_records
           endsample == FSub(FMul(FInt(rd.chan_info.n_samps[chanindx]), nr.val), FInt(1))
       IN IF endsample.k # "fin" \/ endsample.d # 1 THEN Bad
          ELSE read_samples(rd, file, chanindx, 0, endsample.n, nr.isint)

(***************************************************************************)
(* EDFWriter.close.                                                        *)
(***************************************************************************)
\* init_properties() of a writer
writer_init ==
  [fname |-> NoneText, meas_info |-> NoneRec, chan_info |-> NoneRec,
   calibrate |-> NoneRec, offset |-> NoneRec, n_records |-> 0]

\* init_properties() of a reader
reader_init ==
  [fname |-> NoneText, meas_info |-> NoneRec, chan_info |-> NoneRec,
   calibrate |-> NoneRec, offset |-> NoneRec]

\* the steps of close at which an I/O call may raise, in order
ClosePoints == <<"rename", "open_src", "open_dst", "head", "count", "rest", "block", "remove">>

\* the bytes close has written to the new file when its copy is cut short
\* before step `upto` (for "block": before the copy of block number j), or
\* the whole copy for "remove"
CloseCopy(wr, src, upto, j) ==
  LET head == Take(src, 236)
      count == Utf8(padtrim(IntStr(wr.n_records), 8))
      rest == Read(src, 244, wr.meas_info.data_offset - 236 - 8)
      blocksize == SumSeq(wr.chan_info.n_samps) * wr.meas_info.data_size
      start == 244 + Len(rest)
      blocks(n) == Read(src, start, n * blocksize)
  IN CASE upto = "head" -> <<>>
       [] upto = "count" -> head
       [] upto = "rest" -> head \o count
       [] upto = "block" -> head \o count \o rest \o blocks(j - 1)
       [] OTHER -> head \o count \o rest \o blocks(wr.n_records)

\* a faulty close, for comparison: the temporary file is removed before the
\* copy of the data records
closeRemovesEarly(wr, file, bak, failAt, j) ==
  LET at == IF file = Absent /\ failAt # "rename" THEN "rename"
            ELSE IF wr.meas_info = NoneRec /\ failAt \in {"block", "remove", "none"} THEN "rest"
            ELSE failAt
  IN CASE at = "rename" -> [ok |-> FALSE, at |-> at, file |-> file, bak |-> bak, w |-> wr]
       [] at \in {"open_src", "open_dst"} ->
            [ok |-> FALSE, at |-> at, file |-> Absent, bak |-> file, w |-> wr]
       [] at \in {"head", "count", "rest"} ->
            [ok |-> FALSE, at |-> at, file |-> CloseCopy(wr, file, at, j), bak |-> file, w |-> wr]
       [] at \in {"block", "remove"} ->
            [ok |-> FALSE, at |-> at, file |-> CloseCopy(wr, file, at, j), bak |-> Absent, w |-> wr]
       [] OTHER ->
            [ok |-> TRUE, at |-> "none", file |-> CloseCopy(wr, file, "none", j),
             bak |-> Absent, w |-> writer_init]

\* a faulty close, for comparison: the block counter is not reset
closeKeepsCount(wr, file, bak, failAt, j) ==
  LET at == IF file = Absent /\ failAt # "rename" THEN "rename"
            ELSE IF wr.meas_info = NoneRec /\ failAt \in {"block", "remove", "none"} THEN "rest"
            ELSE failAt
  IN CASE at = "rename" -> [ok |-> FALSE, at |-> at, file |-> file, bak |-> bak, w |-> wr]
       [] at \in {"open_src", "open_dst"} ->
            [ok |-> FALSE, at |-> at, file |-> Absent, bak |-> file, w |-> wr]
       [] at \in {"head", "count", "rest", "block", "remove"} ->
            [ok |-> FALSE, at |-> at, file |-> CloseCopy(wr, file, at, j), bak |-> file, w |-> wr]
       [] OTHER ->
            [ok |-> TRUE, at |-> "none", file |-> CloseCopy(wr, file, "none", j),
             bak |-> Absent, w |-> [writer_init EXCEPT !.n_records = wr.n_records]]

\* close() of the writer wr with the file `file` at its path and `bak` at the
\* path of the temporary file; failAt is the step whose I/O call raises
\* ("none": no call raises).  A writer without a header raises at "rest"
\* (meas_info is None), a missing file at "rename".
close(wr, file, bak, failAt, j) ==
  LET at == IF file = Absent /\ failAt # "rename" THEN "rename"
            ELSE IF wr.meas_info = NoneRec /\ failAt \in {"block", "remove", "none"} THEN "rest"
            ELSE failAt
  IN CASE at = "rename" -> [ok |-> FALSE, at |-> at, file |-> file, bak |-> bak, w |-> wr]
       [] at \in {"open_src", "open_dst"} ->
            [ok |-> FALSE, at |-> at, file |-> Absent, bak |-> file, w |-> wr]
       [] at \in {"head", "count", "rest", "block"} ->
            [ok |-> FALSE, at |-> at, file |-> CloseCopy(wr, file, at, j), bak |-> file, w |-> wr]
       [] at = "remove" ->
            [ok |-> FALSE, at |-> at, file |-> CloseCopy(wr, file, at, j), bak |-> file, w |-> wr]
       [] OTHER ->
            [ok |-> TRUE, at |-> "none", file |-> CloseCopy(wr, file, "none", j),
             bak |-> Absent, w |-> writer_init]

(***************************************************************************)
(* The inputs of the model: file names, headers and sample arrays.         *)
(***************************************************************************)
\* "r.edf" and "r.bdf"
Paths == {<<114, 46, 101, 100, 102>>, <<114, 46, 98, 100, 102>>}

\* a header as a reader returns it: subtype 'edf', one channel "A" of two
\* samples a record, physical -8..8 on digital -1..1 (scale 8, offset 0)
MeasPlain ==
  [file_ver |-> <<48>>, subject_id |-> <<83>>, recording_id |-> <<82>>,
   day |-> 3, month |-> 2, year |-> 21, hour |-> 4, minute |-> 5, second |-> 6,
   data_offset |-> 512, subtype |-> <<101, 100, 102>>, data_size |-> 2,
   n_records |-> Num(TRUE, FInt(0)), record_length |-> FInt(1), nchan |-> 1,
   highpass |-> FInt(0), lowpass |-> NoneF, absent |-> {}]

ChanPlain ==
  [ch_names |-> << <<65>> >>, transducers |-> << <<84>> >>, units |-> << <<117, 86>> >>,
   physical_min |-> <<FInt(-8)>>, physical_max |-> <<FInt(8)>>,
   digital_min |-> <<FInt(-1)>>, digital_max |-> <<FInt(1)>>,
   n_samps |-> <<2>>, absent |-> {}]

HdrPlain == [m |-> MeasPlain, c |-> ChanPlain]

\* two channels of one and two samples a record, scale 1 and offset 0
HdrTwo ==
  [m |-> [MeasPlain EXCEPT !.nchan = 2, !.data_offset = 768],
   c |-> [ch_names |-> << <<65>>, <<66>> >>, transducers |-> << <<84>>, <<84>> >>,
          units |-> << <<117, 86>>, <<117, 86>> >>,
          physical_min |-> <<FInt(-2), FInt(-2)>>, physical_max |-> <<FInt(2), FInt(2)>>,
          digital_min |-> <<FInt(-2), FInt(-2)>>, digital_max |-> <<FInt(2), FInt(2)>>,
          n_samps |-> <<1, 2>>, absent |-> {}]]

\* subtype 'bdf' (3-byte samples), and filter settings
HdrBdf ==
  [m |-> [MeasPlain EXCEPT !.subtype = <<98, 100, 102>>, !.data_size = 3,
                           !.highpass = FInt(1), !.lowpass = FInt(30)],
   c |-> [ChanPlain EXCEPT !.physical_min = <<FInt(-2)>>, !.physical_max = <<FInt(2)>>,
                           !.digital_min = <<FInt(-2)>>, !.digital_max = <<FInt(2)>>,
                           !.n_samps = <<1>>]]

\* channel A with a zero digital range (digital_min = digital_max = 0) and
\* physical 0..1, channel B with scale 1
HdrZeroRange ==
  [m |-> [MeasPlain EXCEPT !.nchan = 2, !.data_offset = 768],
   c |-> [HdrTwo.c EXCEPT !.physical_min = <<FInt(0), FInt(-2)>>,
                          !.physical_max = <<FInt(1), FInt(2)>>,
                          !.digital_min = <<FInt(0), FInt(-2)>>,
                          !.digital_max = <<FInt(0), FInt(2)>>,
                          !.n_samps = <<1, 1>>]]

\* an inverted physical range (negative scale), and the optional keys absent
HdrInverted ==
  [m |-> [MeasPlain EXCEPT !.subject_id = <<>>, !.recording_id = <<>>, !.subtype = <<>>,
                           !.absent = {"subject_id", "recording_id", "subtype"}],
   c |-> [ChanPlain EXCEPT !.ch_names = <<>>, !.transducers = <<>>, !.units = <<>>,
                           !.physical_min = <<FInt(2)>>, !.physical_max = <<FInt(-2)>>,
                           !.digital_min = <<FInt(-2)>>, !.digital_max = <<FInt(2)>>,
                           !.n_samps = <<1>>,
                           !.absent = {"ch_names", "transducers", "units"}]]

\* a text longer than its field: a subject id of 81 characters
HdrLong ==
  [m |-> [MeasPlain EXCEPT !.subject_id = [i \in 1..81 |-> IF i = 81 THEN 90 ELSE 83]],
   c |-> [ChanPlain EXCEPT !.n_samps = <<1>>]]

\* a text with a character outside ASCII: the unit "\u00b5V" (micro sign, V)
HdrMicro ==
  [m |-> MeasPlain,
   c |-> [ChanPlain EXCEPT !.units = << <<181, 86>> >>,
                           !.physical_min = <<FInt(-2)>>, !.physical_max = <<FInt(2)>>,
                           !.digital_min = <<FInt(-2)>>, !.digital_max = <<FInt(2)>>,
                           !.n_samps = <<1>>]]

Headers == {HdrPlain, HdrTwo, HdrBdf, HdrZeroRange, HdrInverted, HdrLong, HdrMicro}

\* for channel i, the n_samps[i] values rising from physical_min
Rising(c, i) == [j \in 1..c.n_samps[i] |-> FAdd(c.physical_min[i], FInt(j - 1))]

\* for channel i, the n_samps[i] values falling from physical_max - 1
Falling(c, i) == [j \in 1..c.n_samps[i] |-> FSub(c.physical_max[i], FInt(j))]

\* the data offered to write_block by a writer with header (m, c): rising
\* values on every channel, falling values on every channel, and for each
\* channel the rising values with that channel's array one value too long
DataFor(m, c) ==
  {[i \in 1..m.nchan |-> Rising(c, i)], [i \in 1..m.nchan |-> Falling(c, i)]}
    \cup {[i \in 1..m.nchan |->
             IF i = k THEN Append(Rising(c, i), c.physical_min[i]) ELSE Rising(c, i)] :
          k \in 1..m.nchan}

\* calls made during one opening of a reader: its reads, and the calls of the
\* writer
MaxReads == 1

\* largest sample number a reader is asked for
MaxSample == 4

\* what write_header gives for each header offered
Written == [h \in Headers |-> write_header(h.m, h.c)]

(***************************************************************************)
(* The state.                                                              *)
(*   path       the file name of this run                                  *)
(*   file, bak  the contents at path and at path + '.bak' (or Absent)      *)
(*   w, r       the attributes of the EDFWriter and of the EDFReader       *)
(*   wres       the last call on the writer: which, whether it returned,   *)
(*              and the step of close that raised                          *)
(*   rres       the last call on the reader and what it returned, as long  *)
(*              as no call on the writer has followed it                   *)
(*   g_hdr      the header handed to the last write_header                 *)
(*   g_data     the data of the write_block calls that returned since      *)
(*   g_calls    the write_block calls made since                           *)
(*   g_partial  whether one of them raised after appending bytes           *)
(*   g_pre      the content at path when the last close was called         *)
(*   g_reads    the calls made since the reader was opened: its reads and  *)
(*              the calls on the writer                                    *)
(*   g_ok       the number of write_block calls that returned since the    *)
(*              last write_header                                          *)
(*   g_fresh    whether the writer is used in session order: it had no     *)
(*              file name when it was last opened, and write_header was    *)
(*              called at most once since (TRUE for a writer without a     *)
(*              file name)                                                 *)
(*   g_off      the calls made from the first call out of the usual order  *)
(*              of use on (see InOrder)                                    *)
(*                                                                         *)
(* A call that raises before it has changed anything and whose outcome no  *)
(* property looks at is not a step: write_header and close on a writer     *)
(* without a file name (open(None) and None + '.bak' raise TypeError), a   *)
(* read on a reader without a file name.  EDFReader.init_properties() does *)
(* what EDFReader.close() does.                                            *)
(***************************************************************************)
VARIABLES path, file, bak, w, wres, r, rres, g_hdr, g_data, g_calls, g_partial, g_pre,
          g_reads, g_ok, g_fresh, g_off

vars ==
  <<path, file, bak, w, wres, r, rres, g_hdr, g_data, g_calls, g_partial, g_pre, g_reads, g_ok,
    g_fresh, g_off>>

disk == <<path, file, bak>>

ghosts == <<g_hdr, g_data, g_calls, g_partial, g_pre, g_ok, g_fresh>>

\* the channel numbers of an opened reader
Channels(rd) == IF rd.meas_info = NoneRec THEN {1} ELSE 1..Max(rd.meas_info.nchan, 1)

NoCall == [op |-> "none", ok |-> TRUE, at |-> "none"]

NoRead == [op |-> "none", ch |-> 0, a |-> 0, b |-> 0, ok |-> TRUE, val |-> <<>>]

\* calls made from the first call outside the usual order of use on, that
\* call included
MaxOff == 1

\* The usual order of use, which the code does not enforce: a writer and a
\* reader are not active on the path at the same time, and neither is used
\* beside the temporary file that a close which raised has left.
InOrder == r.fname = NoneText /\ bak = Absent

\* a call is counted from the first call out of that order on
Counted(inorder) ==
  IF g_off = 0 /\ inorder THEN g_off' = 0 ELSE g_off < MaxOff /\ g_off' = g_off + 1

\* a writer call: it is one of the calls made during an opening of a reader
\* when the reader holds a file name, and the result of an earlier reader call
\* is no longer the last result
WriterCall ==
  /\ Counted(InOrder)
  /\ IF r.fname = NoneText THEN g_reads' = g_reads
     ELSE g_reads < MaxReads /\ g_reads' = g_reads + 1
  /\ rres' = NoRead

Init ==
  /\ path \in Paths
  /\ file = Absent /\ bak = Absent
  /\ w = writer_init /\ wres = NoCall
  /\ r = reader_init /\ rres = NoRead
  /\ g_hdr = NoneRec /\ g_data = <<>> /\ g_calls = 0 /\ g_partial = FALSE /\ g_pre = Absent
  /\ g_reads = 0 /\ g_ok = 0 /\ g_fresh = TRUE /\ g_off = 0

\* EDFWriter.open(fname): the file is created or truncated
EDFWriter_open ==
  /\ WriterCall
  /\ file' = <<>>
  /\ w' = [w EXCEPT !.fname = path]
  /\ wres' = [op |-> "open", ok |-> TRUE, at |-> "none"]
  /\ g_hdr' = NoneRec /\ g_data' = <<>> /\ g_calls' = 0 /\ g_partial' = FALSE
  /\ g_pre' = Absent /\ g_ok' = 0
  /\ g_fresh' = (w.fname = NoneText)
  /\ UNCHANGED <<path, bak, r>>

\* EDFWriter.write_header(header)
EDFWriter_write_header ==
  /\ WriterCall
  /\ w.fname # NoneText
  /\ \E h \in Headers :
       \E res \in {Written[h]} :
          /\ file' = res.file
          /\ w' = [w EXCEPT !.meas_info = res.meas_info, !.chan_info = res.chan_info,
                            !.calibrate = res.calibrate, !.offset = res.offset]
          /\ g_hdr' = h
  /\ wres' = [op |-> "write_header", ok |-> TRUE, at |-> "none"]
  /\ g_data' = <<>> /\ g_calls' = 0 /\ g_partial' = FALSE /\ g_pre' = Absent
  /\ g_ok' = 0
  /\ g_fresh' = (g_fresh /\ g_hdr = NoneRec)
  /\ UNCHANGED <<path, bak, r>>

\* EDFWriter.write_block(data), on an open writer or on one without a file
\* name (never opened, or closed)
EDFWriter_write_block ==
  /\ WriterCall
  /\ g_calls < MaxBlocks /\ w.n_records < MaxBlocks
  /\ \E data \in (IF w.meas_info = NoneRec THEN {<<>>} ELSE DataFor(w.meas_info, w.chan_info)) :
     \E u \in CastChoices(w, data) :
       \E res \in {write_block(w, file, data, u)} :
          /\ file' = res.file
          /\ w' = [w EXCEPT !.n_records = res.n_records]
          /\ wres' = [op |-> "write_block", ok |-> res.ok, at |-> "none"]
          /\ g_data' = IF res.ok THEN Append(g_data, data) ELSE g_data
          /\ g_partial' = (g_partial \/ (~res.ok /\ res.file # file))
          /\ g_ok' = IF res.ok THEN g_ok + 1 ELSE g_ok
  /\ g_calls' = g_calls + 1 /\ g_pre' = Absent
  /\ UNCHANGED <<path, bak, r, g_hdr, g_fresh>>

\* EDFWriter.init_properties(): the attributes are reset, the files are not
\* touched
EDFWriter_init_properties ==
  /\ WriterCall
  /\ w' = writer_init
  /\ wres' = [op |-> "init_properties", ok |-> TRUE, at |-> "none"]
  /\ g_fresh' = TRUE /\ g_pre' = Absent
  /\ UNCHANGED <<path, file, bak, r, g_hdr, g_data, g_calls, g_partial, g_ok>>

\* EDFWriter.close(), an I/O call of which may raise
EDFWriter_close ==
  /\ WriterCall
  /\ w.fname # NoneText
  /\ \E failAt \in {"none"} \cup {ClosePoints[i] : i \in 1..Len(ClosePoints)} :
     \E j \in (IF failAt = "block" THEN 1..Min(w.n_records, MaxBlocks) ELSE {1}) :
       /\ \E res \in {close(w, file, bak, failAt, j)} :
             /\ file' = res.file
             /\ bak' = res.bak
             /\ w' = res.w
             /\ wres' = [op |-> "close", ok |-> res.ok, at |-> res.at]
             /\ g_fresh' = (res.ok \/ g_fresh)
  /\ g_pre' = file
  /\ UNCHANGED <<path, r, g_hdr, g_data, g_calls, g_partial, g_ok>>

\* EDFReader.open(fname): open() raises when there is no file; else the name
\* is kept, then read_header(), which leaves the attributes as they were
\* when it raises
EDFReader_open ==
  /\ Counted(InOrder)
  /\ \E res \in {read_header(path, file)} :
        /\ r' = IF file = Absent THEN r
                ELSE IF res.ok
                THEN [fname |-> path, meas_info |-> res.meas_info, chan_info |-> res.chan_info,
                      calibrate |-> res.calibrate, offset |-> res.offset]
                ELSE [r EXCEPT !.fname = path]
        /\ rres' = [NoRead EXCEPT !.op = "open", !.ok = res.ok]
  /\ g_reads' = 0
  /\ UNCHANGED <<disk, w, wres, ghosts>>

\* EDFReader.close()
EDFReader_close ==
  /\ r.fname # NoneText
  /\ r' = reader_init
  /\ rres' = NoRead
  /\ g_reads' = 0
  /\ Counted(TRUE)
  /\ UNCHANGED <<disk, w, wres, ghosts>>

\* a faulty read_block, for comparison: the reader keeps the position it has
\* read to as the place where the data records start
EDFReader_read_block_moving ==
  /\ r.fname # NoneText /\ g_reads < MaxReads
  /\ \E block \in 0..MaxReadBlock :
       \E res \in {read_block(r, file, block)} :
          /\ rres' = [op |-> "read_block", ch |-> 0, a |-> block, b |-> 0,
                      ok |-> res.ok, val |-> IF res.ok THEN res.v ELSE <<>>]
          /\ r' = IF res.ok
                  THEN [r EXCEPT !.meas_info.data_offset =
                                   @ + (block + 1) * SumSeq(r.chan_info.n_samps)
                                                   * r.meas_info.data_size]
                  ELSE r
  /\ g_reads' = g_reads + 1
  /\ Counted(TRUE)
  /\ UNCHANGED <<disk, w, wres, ghosts>>

\* EDFReader.read_block(block)
EDFReader_read_block ==
  /\ r.fname # NoneText /\ g_reads < MaxReads
  /\ \E block \in 0..MaxReadBlock :
       \E res \in {read_block(r, file, block)} :
          rres' = [op |-> "read_block", ch |-> 0, a |-> block, b |-> 0,
                   ok |-> res.ok, val |-> IF res.ok THEN res.v ELSE <<>>]
  /\ g_reads' = g_reads + 1
  /\ Counted(TRUE)
  /\ UNCHANGED <<disk, w, wres, r, ghosts>>

\* EDFReader.read_samples(channel, begsample, endsample)
EDFReader_read_samples ==
  /\ r.fname # NoneText /\ g_reads < MaxReads
  /\ \E ch \in Channels(r), b \in 0..MaxSample, e \in 0..MaxSample :
       /\ b <= e
       /\ \E res \in {read_samples(r, file, ch, b, e, TRUE)} :
             rres' = [op |-> "read_samples", ch |-> ch, a |-> b, b |-> e,
                      ok |-> res.ok, val |-> IF res.ok THEN res.v ELSE <<>>]
  /\ g_reads' = g_reads + 1
  /\ Counted(TRUE)
  /\ UNCHANGED <<disk, w, wres, r, ghosts>>

\* EDFReader.read_signal(chanindx)
EDFReader_read_signal ==
  /\ r.fname # NoneText /\ g_reads < MaxReads
  /\ \E ch \in Channels(r) :
       \E res \in {read_signal(r, file, ch)} :
          rres' = [op |-> "read_signal", ch |-> ch, a |-> 0, b |-> 0,
                   ok |-> res.ok, val |-> IF res.ok THEN res.v ELSE <<>>]
  /\ g_reads' = g_reads + 1
  /\ Counted(TRUE)
  /\ UNCHANGED <<disk, w, wres, r, ghosts>>

Next ==
  \/ EDFWriter_open
  \/ EDFWriter_write_header
  \/ EDFWriter_write_block
  \/ EDFWriter_init_properties
  \/ EDFWriter_close
  \/ EDFReader_open
  \/ EDFReader_close
  \/ EDFReader_read_block
  \/ EDFReader_read_samples
  \/ EDFReader_read_signal

Spec == Init /\ [][Next]_vars

(***************************************************************************)
(* The record count written by close.  A recording of a hundred million    *)
(* records of samples cannot be held as a sequence, so this specification  *)
(* takes a header without channels, with which a write_block call that     *)
(* returns counts a record and appends nothing: it starts after open, one  *)
(* write_header and g_ok write_block calls that returned, when the file    *)
(* is the 256 bytes of the header.  A reader opened on such a file has no  *)
(* channel to read from: each of its three reads raises.                   *)
(***************************************************************************)
\* no channels: the arrays of the channel fields are empty (n_samps an empty
\* integer array)
HdrNone ==
  [m |-> [MeasPlain EXCEPT !.nchan = 0, !.data_offset = 256],
   c |-> [ch_names |-> <<>>, transducers |-> <<>>, units |-> <<>>,
          physical_min |-> <<>>, physical_max |-> <<>>,
          digital_min |-> <<>>, digital_max |-> <<>>,
          n_samps |-> <<>>, absent |-> {}]]

\* the numbers of records written before close
Counts == {0, 1, 2, 12345678, 99999999, 100000000, 123456789}

InitCount ==
  /\ path \in Paths
  /\ \E hdr \in {write_header(HdrNone.m, HdrNone.c)}, n \in Counts :
       /\ file = hdr.file
       /\ w = [fname |-> path, meas_info |-> hdr.meas_info, chan_info |-> hdr.chan_info,
               calibrate |-> hdr.calibrate, offset |-> hdr.offset, n_records |-> n]
       /\ g_ok = n /\ g_calls = n
       /\ wres = [op |-> IF n = 0 THEN "write_header" ELSE "write_block",
                  ok |-> TRUE, at |-> "none"]
  /\ g_hdr = HdrNone
  /\ bak = Absent
  /\ r = reader_init /\ rres = NoRead
  /\ g_data = <<>> /\ g_partial = FALSE /\ g_pre = Absent /\ g_reads = 0 /\ g_fresh = TRUE
  /\ g_off = 0

NextCount ==
  \/ EDFWriter_close
  \/ EDFReader_open
  \/ EDFReader_close
  \/ EDFReader_read_block
  \/ EDFReader_read_samples
  \/ EDFReader_read_signal

SpecCount == InitCount /\ [][NextCount]_vars

(***************************************************************************)
(* The filter settings.  write_header leaves the prefiltering fields       *)
(* blank, so this specification starts from files of other EDF writers:    *)
(* the header that write_header makes, with a prefiltering text            *)
(* "HP: <h> LP: <l>" in the field of every channel.                        *)
(***************************************************************************)
\* the filter settings of one channel
Filters == {[hp |-> h, lp |-> l] : h \in {1, 2, 3}, l \in {20, 30}}

\* "HP: <h> LP: <l>"
FilterText(f) ==
  <<72, 80, 58, 32>> \o IntStr(f.hp) \o <<32, 76, 80, 58, 32>> \o IntStr(f.lp)

\* the position of the prefiltering field of channel i in a header of nchan channels
PrefilterAt(nchan, i) == 256 + 136 * nchan + (i - 1) * 80

\* the file with the prefiltering fields of the channels i..nchan set from fs
RECURSIVE WithFilters(_, _, _, _)
WithFilters(f, nchan, fs, i) ==
  IF i > nchan THEN f
  ELSE LET pos == PrefilterAt(nchan, i)
           g == Take(f, pos) \o Utf8(padtrim(FilterText(fs[i]), 80)) \o Drop(f, pos + 80)
       IN WithFilters(g, nchan, fs, i + 1)

InitFilter ==
  /\ path \in Paths
  /\ \E h \in {HdrPlain, HdrTwo} :
       \E fs \in [1..h.m.nchan -> Filters] :
          file = WithFilters(Written[h].file, h.m.nchan, fs, 1)
  /\ bak = Absent
  /\ w = writer_init /\ wres = NoCall
  /\ r = reader_init /\ rres = NoRead
  /\ g_hdr = NoneRec /\ g_data = <<>> /\ g_calls = 0 /\ g_partial = FALSE /\ g_pre = Absent
  /\ g_reads = 0 /\ g_ok = 0 /\ g_fresh = TRUE /\ g_off = 0

NextFilter ==
  \/ EDFReader_open
  \/ EDFReader_close

SpecFilter == InitFilter /\ [][NextFilter]_vars

(***************************************************************************)
(* The reuse of a writer.  This specification starts when a first session  *)
(* of the writer (open, write_header, one write_block, close) has just     *)
(* ended with a close that returned; the calls of the writer follow.       *)
(***************************************************************************)
\* the headers of the first session
FirstHeaders == {HdrPlain, HdrInverted}

InitReuse ==
  /\ path \in Paths
  /\ \E h \in FirstHeaders :
       \E data \in {[i \in 1..h.m.nchan |-> Rising(h.c, i)]}, hdr \in {Written[h]} :
       \E w1 \in {[fname |-> path, meas_info |-> hdr.meas_info, chan_info |-> hdr.chan_info,
                   calibrate |-> hdr.calibrate, offset |-> hdr.offset, n_records |-> 0]} :
       \E blk \in {write_block(w1, hdr.file, data, <<>>)} :
       \E res \in {close([w1 EXCEPT !.n_records = blk.n_records], blk.file, Absent, "none", 1)} :
          /\ file = res.file /\ bak = res.bak /\ w = res.w
          /\ wres = [op |-> "close", ok |-> res.ok, at |-> res.at]
          /\ g_hdr = h /\ g_data = <<data>> /\ g_pre = blk.file
  /\ r = reader_init /\ rres = NoRead
  /\ g_calls = 1 /\ g_ok = 1 /\ g_partial = FALSE /\ g_reads = 0 /\ g_fresh = TRUE /\ g_off = 0

NextReuse ==
  \/ EDFWriter_open
  \/ EDFWriter_write_header
  \/ EDFWriter_write_block
  \/ EDFWriter_init_properties
  \/ EDFWriter_close

SpecReuse == InitReuse /\ [][NextReuse]_vars

\* every call so far was made in the usual order of use
InOrderSoFar == g_off = 0

\* the writer's last call was a close that returned, at the end of calls that
\* were all made in the usual order of use
Finalized == wres.op = "close" /\ wres.ok /\ InOrderSoFar

\* the bytes at a path: none where there is no file
Content(f) == IF f = Absent THEN <<>> ELSE f

\* the reader is open and has decoded the header
HeaderRead == r.fname # NoneText /\ r.meas_info # NoneRec

\* C1 as stated: after open, one write_header, N write_block calls that
\* returned and close, the count field at byte 236 holds N, and a reader
\* opened on the path reports n_records = N, for every N >= 0.
C1_AnyCount ==
  Finalized =>
    /\ ReadInt(file, 236, 8) = Good(g_ok)
    /\ r.fname # NoneText => HeaderRead /\ r.meas_info.n_records = Num(TRUE, FInt(g_ok))

\* every text of the header h is no longer than its field
Fits(h) ==
  LET f == HeaderFields(FillMeas(h.m), FillChan(h.c, h.m.nchan))
  IN \A k \in 1..Len(f) : Len(f[k].text) <= f[k].width

\* the reader is open on a recording that was written from a header whose
\* texts fit their fields by write_block calls which all returned, and
\* finalized
ReadsFinalized ==
  Finalized /\ HeaderRead /\ Fits(g_hdr) /\ g_calls = g_ok /\ g_ok = Len(g_data)

\* C2 as stated: for a channel with digital_max > digital_min and
\* physical_max > physical_min, a value x in [physical_min, physical_max]
\* given to write_block and the value y that read_block returns for the same
\* block, channel and position after close and reopen satisfy
\* |y - x| <= |scale| / 2.
C2_SampleRoundTrip ==
  (ReadsFinalized /\ rres.op = "read_block" /\ rres.ok /\ rres.a < Len(g_data)) =>
    \A i \in 1..g_hdr.m.nchan :
      (FLt(g_hdr.c.digital_min[i], g_hdr.c.digital_max[i])
         /\ FLt(g_hdr.c.physical_min[i], g_hdr.c.physical_max[i])) =>
        \A j \in 1..g_hdr.c.n_samps[i] :
          LET x == g_data[rres.a + 1][i][j]
              y == rres.val[i][j]
          IN (FLe(g_hdr.c.physical_min[i], x) /\ FLe(x, g_hdr.c.physical_max[i])) =>
               FLe(FAbs(FSub(y, x)), FDiv(FAbs(CalScale(g_hdr.c, i)), FInt(2)))

\* the measurement fields and the channel fields that a header round trip
\* is to keep
MeasKept(m) ==
  <<m.file_ver, m.subject_id, m.recording_id, m.day, m.month, m.year,
    m.hour, m.minute, m.second, m.subtype, m.data_size, m.record_length,
    m.nchan, m.highpass, m.lowpass>>

ChanKept(c) ==
  <<c.ch_names, c.transducers, c.units, c.physical_min, c.physical_max,
    c.digital_min, c.digital_max, c.n_samps>>

\* C3 as stated: the header that read_header decodes from the reopened file
\* after write_header, N write_block calls and close has every measurement
\* field and every channel field equal to the one given to write_header
\* (data_offset and n_records apart).
C3_HeaderRoundTrip ==
  (Finalized /\ HeaderRead /\ Fits(g_hdr)) =>
    /\ MeasKept(r.meas_info) = MeasKept(FillMeas(g_hdr.m))
    /\ ChanKept(r.chan_info) = ChanKept(FillChan(g_hdr.c, g_hdr.m.nchan))

\* C4: when close raises at any step, the content the file had before close
\* is still on disk, at the path or at the temporary path; and when close
\* leaves no temporary file behind, either nothing was moved or it returned
\* and the file at the path is the whole replacement.  This is said of every
\* close call by itself, with the file as it was when that call was made: a
\* close called again after one that raised moves the partly written file
\* over the temporary file.
C4_BackupSurvives ==
  [][EDFWriter_close =>
       /\ ~wres'.ok => (file' = file \/ bak' = file)
       /\ (bak' = Absent /\ file' # file) =>
            (wres'.ok /\ file' = CloseCopy(w, file, "none", 1))]_vars

\* close has raised in the copy of the second data record: the path holds a
\* part of the replacement and the temporary file the whole recording
C4_Witness ==
  /\ wres.op = "close" /\ ~wres.ok /\ wres.at = "block"
  /\ bak = g_pre /\ bak # Absent /\ file # bak /\ g_hdr # NoneRec
  /\ Len(file) > g_hdr.m.data_offset /\ Len(file) < Len(bak)

\* C5 as stated: a close that returns leaves at the path a file of the same
\* length as before, equal to it in bytes [0,236) and from byte 244 to the
\* end (here for a writer whose header was written since it was opened, and
\* a close that is not made beside the temporary file of an earlier one).
C5_OnlyCountChanges ==
  [][(EDFWriter_close /\ wres'.ok /\ g_hdr # NoneRec /\ InOrderSoFar') =>
       /\ Len(file') = Len(file)
       /\ Take(file', 236) = Take(file, 236)
       /\ Drop(file', 244) = Drop(file, 244)]_vars

\* C6 as stated: after write_header and k write_block calls, all of which
\* returned, the size of the file is data_offset + k * data_size * sum(n_samps),
\* for data_size 2 and for data_size 3.
C6_BlockLayout ==
  (wres.op \in {"write_header", "write_block"} /\ g_hdr # NoneRec /\ g_calls = g_ok
     /\ InOrderSoFar) =>
    Len(file) = w.meas_info.data_offset
                  + g_ok * w.meas_info.data_size * SumSeq(w.chan_info.n_samps)

\* the samples begin..end of channel ch taken one by one from read_block
SamplesByBlock(rd, f, ch, begin, end) ==
  LET n == rd.chan_info.n_samps[ch]
  IN [k \in 1..(end - begin + 1) |->
        read_block(rd, f, (begin + k - 1) \div n).v[ch][((begin + k - 1) % n) + 1]]

\* read_block returns for every block that holds one of the samples begin..end
BlocksReadable(rd, f, ch, begin, end) ==
  LET n == rd.chan_info.n_samps[ch]
  IN \A blk \in (begin \div n)..(end \div n) : read_block(rd, f, blk).ok

\* a read that has returned the samples begin..end of channel ch: as many
\* values as there are samples, each the one read_block gives
SamplesCorrect(res, ch, begin, end) ==
  /\ res.ok
  /\ Len(res.val) = end - begin + 1
  /\ BlocksReadable(r, file, ch, begin, end)
  /\ res.val = SamplesByBlock(r, file, ch, begin, end)

\* C7 as stated: for a channel ch of n samples a record and 0 <= begin <= end <
\* n * n_records, read_samples(ch, begin, end) returns end - begin + 1 values,
\* the j-th being read_block((begin + j) div n)[ch][(begin + j) mod n]; and
\* read_signal(ch) returns what read_samples(ch, 0, n * n_records - 1)
\* returns, for every count of at least one sample that the reader reports.
C7_SamplesAcrossBlocks ==
  HeaderRead =>
    LET nr == r.meas_info.n_records
        total(ch) == FMul(FInt(r.chan_info.n_samps[ch]), nr.val)
    IN /\ (rres.op = "read_samples" /\ FLt(FInt(rres.b), total(rres.ch))) =>
            SamplesCorrect(rres, rres.ch, rres.a, rres.b)
       /\ (rres.op = "read_signal" /\ rres.ch <= Len(r.chan_info.n_samps)
             /\ total(rres.ch).k = "fin" /\ total(rres.ch).d = 1 /\ total(rres.ch).n >= 1) =>
            \E whole \in {read_samples(r, file, rres.ch, 0, total(rres.ch).n - 1, TRUE)} :
               rres.ok /\ whole.ok /\ rres.val = whole.v

\* C8 as stated: when the count field that read_header reads is -1 (here
\* directly after the open that called it), the n_records it reports is
\* floor((file_size - data_offset) / (data_size * sum(n_samps))), a partial
\* record at the end not being counted.
C8_DerivedRecordCount ==
  (HeaderRead /\ rres.op = "open" /\ rres.ok /\ ReadInt(file, 236, 8) = Good(-1)) =>
    r.meas_info.n_records.val =
      FInt((Len(file) - r.meas_info.data_offset)
             \div (r.meas_info.data_size * SumSeq(r.chan_info.n_samps)))

\* the calibration an object x (a writer or a reader) holds for its header:
\* scale 1 and offset 0 for a channel whose digital_max equals digital_min,
\* and the scale and offset of the header for a channel of positive scale
FallbackApplied(x) ==
  \A i \in 1..Len(x.chan_info.n_samps) :
    /\ x.chan_info.digital_max[i] = x.chan_info.digital_min[i] =>
         (x.calibrate[i] = FInt(1) /\ x.offset[i] = FInt(0))
    /\ (x.chan_info.digital_max[i] # x.chan_info.digital_min[i]
          /\ FLt(FInt(0), CalScale(x.chan_info, i))) =>
         (x.calibrate[i] = CalScale(x.chan_info, i) /\ x.offset[i] = CalOffset(x.chan_info, i))

\* C9 as stated: write_header and read_header give a channel whose
\* digital_max equals digital_min the scale 1 and the offset 0, without
\* raising, and leave the other channels' scale and offset as the header
\* gives them.
C9_CalibrationFallback ==
  /\ (w.meas_info # NoneRec /\ g_hdr # NoneRec) => FallbackApplied(w)
  /\ HeaderRead => FallbackApplied(r)

\* C10 as stated: when the text of a header field is longer than the field,
\* write_header raises instead of writing a shortened value.
C10_OverlongRejected ==
  (wres.op = "write_header" /\ ~Fits(g_hdr)) => ~wres.ok

\* C11 as stated: a write_block call that is rejected because a channel's
\* array has not n_samps[i] values (the writer has a header and the file is
\* not empty) appends no bytes to the file, not even for the channels before
\* i, and leaves the block counter as it was.
C11_RejectedNoEffect ==
  [][(EDFWriter_write_block /\ w.fname # NoneText /\ w.meas_info # NoneRec
        /\ Len(file) > 0 /\ ~wres'.ok) =>
       (file' = file /\ w'.n_records = w.n_records)]_vars

\* C12: write_block on a writer on which write_header has not been called
\* since open, or on a writer that has been closed, raises, writes no bytes
\* to the file or beside it, and leaves the block counter unchanged.
C12_SessionOrder ==
  [][(EDFWriter_write_block /\ (g_hdr = NoneRec \/ w.fname = NoneText)) =>
       /\ ~wres'.ok
       /\ Content(file') = Content(file) /\ bak' = bak
       /\ w'.n_records = w.n_records]_vars

\* C13: read_block, read_samples and read_signal (the steps that count a
\* read) leave the reader's header, its calibration and the files unchanged,
\* so that read_block(k) called again after read_block(k) returns the same
\* arrays.
C13_ReadsDoNotMutate ==
  /\ [][(g_reads' = g_reads + 1 /\ rres'.op \in {"read_block", "read_samples", "read_signal"}) =>
          UNCHANGED <<r, file, bak>>]_vars
  /\ [](rres.op = "read_block" =>
          LET again == read_block(r, file, rres.a)
          IN again.ok = rres.ok /\ (again.ok => again.v = rres.val))

\* read_block has returned the second data record of a finalized recording
C13_Witness ==
  /\ Finalized /\ HeaderRead /\ rres.op = "read_block" /\ rres.ok /\ rres.a = 1
  /\ Len(rres.val) = r.meas_info.nchan /\ g_ok = 2

\* C14 as stated: after write_header has returned, for any texts of the
\* header (characters outside ASCII included), the file has 256 + 256 * nchan
\* bytes, which is also the writer's data_offset and the number in the
\* header-length field.
C14_HeaderLength ==
  (wres.op = "write_header" /\ wres.ok) =>
    /\ Len(file) = 256 + 256 * w.meas_info.nchan
    /\ w.meas_info.data_offset = 256 + 256 * w.meas_info.nchan
    /\ ReadInt(file, 184, 8) = Good(256 + 256 * w.meas_info.nchan)

\* the value of the first token that follows tag in the prefiltering field
\* of channel i of the file
FilterOf(f, nchan, i, tag) ==
  ParseInt(FindTokens(ReadText(f, PrefilterAt(nchan, i), 80).v, tag, 1)[1]).v

\* C15 as stated: the highpass that read_header decodes is the value of the
\* HP tokens when all nchan channels carry the same one and the largest of
\* them when they differ; the lowpass likewise with the smallest LP value.
C15_FilterDecoding ==
  HeaderRead =>
    LET n == r.meas_info.nchan
    IN /\ r.meas_info.highpass = FInt(SetMax({FilterOf(file, n, i, <<72, 80>>) : i \in 1..n}))
       /\ r.meas_info.lowpass = FInt(SetMin({FilterOf(file, n, i, <<76, 80>>) : i \in 1..n}))

\* C16 as stated: however close ends, by returning or by raising at any
\* step, no temporary file is left and the file at the path is the whole
\* file of before close or the whole finalized file.
C16_CloseAllOrNothing ==
  [][EDFWriter_close =>
       /\ bak' = Absent
       /\ \/ file' = file
          \/ (w.meas_info # NoneRec /\ file' = CloseCopy(w, file, "none", 1))]_vars

\* C17 as stated: on an open writer, after any sequence of write_header
\* calls and write_block calls that returned (a second write_header after
\* blocks included), the block counter n_records is the number of whole data
\* records in the file after the header (here for 2-byte samples).
C17_CounterMatchesFile ==
  (w.fname # NoneText /\ g_hdr # NoneRec /\ wres.op \in {"write_header", "write_block"}
     /\ g_calls = g_ok /\ InOrderSoFar /\ w.meas_info.data_size = 2) =>
    w.n_records = (Len(file) - w.meas_info.data_offset)
                    \div (w.meas_info.data_size * SumSeq(w.chan_info.n_samps))

\* C18: a close that returns leaves the writer as init_properties does (no
\* file name, no header, no calibration, counter 0); and when the writer is
\* then used again in session order (open, write_header, k write_block
\* calls that return, close), it holds no header, no calibration and the
\* count 0 until write_header, the header and the calibration of that
\* write_header and the count of the blocks written since after it, and
\* close writes the count k into the file.
C18_WriterReuse ==
  /\ [][(EDFWriter_close /\ wres'.ok) =>
          /\ w' = writer_init
          /\ (g_fresh /\ g_hdr # NoneRec /\ InOrderSoFar') =>
               ReadInt(file', 236, 8) = Good(g_ok)]_vars
  /\ []((w.fname # NoneText /\ g_fresh) =>
          IF g_hdr = NoneRec
          THEN [w EXCEPT !.fname = NoneText] = writer_init
          ELSE /\ w.meas_info = Written[g_hdr].meas_info
               /\ w.chan_info = Written[g_hdr].chan_info
               /\ w.calibrate = Written[g_hdr].calibrate
               /\ w.offset = Written[g_hdr].offset
               /\ w.n_records = g_ok)

\* the second session of a writer, with another header than the first
\* (two channels) and two blocks, has been closed: the count field holds 2
C18_Witness ==
  /\ Finalized /\ w = writer_init /\ g_hdr = HdrTwo /\ g_ok = 2 /\ g_calls = 2
  /\ ReadInt(file, 236, 8) = Good(2)
  /\ Len(file) = 768 + 2 * 6

====
